---- MODULE Spec2Model ----
(***************************************************************************)
(* A model of once_self_cell's unsafe core (src/src/unsafe_self_cell.rs):  *)
(* the heap allocated JoinedCell, the UnsafeSelfCell handle and the        *)
(* OwnerAndCellDropGuard used while the dependent is being built.          *)
(*                                                                         *)
(* The heap is a map from addresses to storage cells.  Every destructor    *)
(* run, every move-out and every allocator call is appended to `log`, so   *)
(* order and multiplicity of these events can be read off the log.         *)
(***************************************************************************)
EXTENDS Integers, Sequences, FiniteSets, TLC

VARIABLES
    pc,         \* position in the construction sequence / life of the cell
    joined_ptr, \* the constructor's local: pointer to the allocated storage
    types,      \* the concrete (Owner, Dependent) type pair of the wrapper
    heap,       \* address -> storage cell
    guard,      \* the OwnerAndCellDropGuard
    handle,     \* the UnsafeSelfCell
    borrows,    \* references handed out by the accessors and still alive
    log,        \* destructor runs, move-outs, allocator calls, in order
    orig,       \* owner value and builder given at construction
    lastRead,   \* what the last borrow_owner / borrow_dependent call observed
    returned,   \* the owner value returned by into_owner
    nOps,       \* accessor calls and handle moves made so far
    mutated,    \* the storage was written through a borrow_mut reference
    uaf         \* an operation dereferenced freed storage

vars == <<pc, joined_ptr, types, heap, guard, handle, borrows, log, orig,
          lastRead, returned, nOps, mutated, uaf>>

----------------------------------------------------------------------------
(* Bounds of the model *)

\* owner values are 0 .. MaxOwner
MaxOwner == 1
\* heap addresses are 1 .. NumAddrs
NumAddrs == 2
\* places (variables, containers) a handle can be moved between
NumSlots == 2
\* accessor calls and handle moves per cell
MaxOps == 3
\* shared references alive at the same time
MaxShared == 2
\* threads a handle can be sent to or shared with
NumThreads == 2

Values == 0 .. MaxOwner
Addrs == 1 .. NumAddrs
Slots == 1 .. NumSlots
Threads == 1 .. NumThreads
NoAddr == 0

----------------------------------------------------------------------------
(* Types and layouts *)

Types == {"u8", "u64"}

\* the types the markers are examined on: Rc is neither Send nor Sync, Cell
\* is Send and not Sync
MarkerTypes == Types \cup {"Rc", "Cell"}

SizeOf(t) == IF t = "u8" THEN 1 ELSE 8

AlignOf(t) == IF t = "u8" THEN 1 ELSE 8

\* T: Send
IsSend(t) == t # "Rc"

\* T: Sync
IsSync(t) == t \notin {"Rc", "Cell"}

Max(a, b) == IF a >= b THEN a ELSE b

RoundUp(n, a) == ((n + a - 1) \div a) * a

NoLayout == [size |-> 0, align |-> 0]

\* Layout::new::<JoinedCell<Owner, Dependent>>()
JoinedCellLayout(Owner, Dependent) ==
    LET align == Max(AlignOf(Owner), AlignOf(Dependent))
        depOffset == RoundUp(SizeOf(Owner), AlignOf(Dependent))
    IN  [size |-> RoundUp(depOffset + SizeOf(Dependent), align), align |-> align]

----------------------------------------------------------------------------
(* Storage *)

\* the fields of JoinedCell in declaration order
JoinedCellFields == <<"owner", "dependent">>

UninitOwner == [st |-> "uninit", val |-> 0]

UninitDependent == [st |-> "uninit", target |-> NoAddr, fn |-> "none", own |-> 0]

FreeCell ==
    [state |-> "free", layout |-> NoLayout,
     owner |-> UninitOwner, dependent |-> UninitDependent]

\* the dependent builders: what the dependent shows of the owner it borrows
Fns == {"whole", "succ"}

Apply(f, v) == IF f = "whole" THEN v ELSE v + 1

Allocated(p) == p \in Addrs /\ heap[p].state = "alloc"

\* what a reader sees through the dependent: it follows the reference the
\* dependent holds to the owner
View(dep) ==
    [seen |-> Apply(dep.fn, heap[dep.target].owner.val), own |-> dep.own]

Event(e, who, l) == [ev |-> e, by |-> who, layout |-> l]

Count(e) == Cardinality({i \in DOMAIN log : log[i].ev = e})

NoBorrows == borrows.shared = 0 /\ ~borrows.mut

NoView == [seen |-> 0, own |-> 0]

NoRead == [op |-> "none", owner |-> 0, dependent |-> NoView, afterMoves |-> 0]

NoGuard == [state |-> "none", fully_init |-> FALSE, joined_ptr |-> NoAddr]

NoHandle ==
    [state |-> "none", joined_void_ptr |-> NoAddr, slot |-> 1, moves |-> 0,
     thread |-> 1, lent |-> FALSE]

----------------------------------------------------------------------------
Init ==
    /\ pc = "start"
    /\ joined_ptr = NoAddr
    /\ mutated = FALSE
    /\ types = [owner |-> "u8", dependent |-> "u8"]
    /\ heap = [a \in Addrs |-> FreeCell]
    /\ guard = NoGuard
    /\ handle = NoHandle
    /\ borrows = [shared |-> 0, mut |-> FALSE]
    /\ log = <<>>
    /\ orig = [owner |-> 0, fn |-> "none"]
    /\ lastRead = NoRead
    /\ returned = [st |-> "none", val |-> 0]
    /\ nOps = 0
    /\ uaf = FALSE

----------------------------------------------------------------------------
(* Construction, as the wrapper layer performs it *)

\* step 1: allocate storage sized for the joined pair
Alloc(a, Owner, Dependent) ==
    /\ pc = "start"
    /\ heap[a].state = "free"
    /\ types' = [owner |-> Owner, dependent |-> Dependent]
    /\ heap' = [heap EXCEPT ![a] =
                  [FreeCell EXCEPT !.state = "alloc",
                                   !.layout = JoinedCellLayout(Owner, Dependent)]]
    /\ log' = Append(log, Event("alloc", "new", JoinedCellLayout(Owner, Dependent)))
    /\ joined_ptr' = a
    /\ pc' = "allocated"
    /\ UNCHANGED <<guard, handle, borrows, orig, lastRead, returned, nOps,
                   mutated, uaf>>

\* step 2: write the owner
WriteOwner(v) ==
    /\ pc = "allocated"
    /\ heap' = [heap EXCEPT ![joined_ptr].owner = [st |-> "init", val |-> v]]
    /\ orig' = [orig EXCEPT !.owner = v]
    /\ pc' = "owner_written"
    /\ UNCHANGED <<joined_ptr, mutated, types, guard, handle, borrows, log, lastRead, returned, nOps, uaf>>

\* OwnerAndCellDropGuard::new
GuardNew(ptr) ==
    /\ pc = "owner_written"
    /\ guard' = [state |-> "active", fully_init |-> FALSE, joined_ptr |-> ptr]
    /\ pc' = "guarded"
    /\ UNCHANGED <<joined_ptr, mutated, types, heap, handle, borrows, log, orig, lastRead, returned, nOps, uaf>>

\* step 3/4: the builder returns and the dependent is written
BuildDependent(f) ==
    /\ pc = "guarded"
    /\ heap' = [heap EXCEPT ![joined_ptr].dependent =
                  [st |-> "init", target |-> joined_ptr, fn |-> f, own |-> 0]]
    /\ orig' = [orig EXCEPT !.fn = f]
    /\ pc' = "built"
    /\ UNCHANGED <<joined_ptr, mutated, types, guard, handle, borrows, log, lastRead, returned, nOps, uaf>>

\* step 3: the builder aborts; the stack unwinds
BuildAbort ==
    /\ pc = "guarded"
    /\ pc' = "unwinding"
    /\ UNCHANGED <<joined_ptr, mutated, types, heap, guard, handle, borrows, log, orig, lastRead,
                   returned, nOps, uaf>>

\* a mark_fully_init that leaves the flag as it is
MarkFullyInitForgets ==
    /\ pc \in {"built", "marked"}
    /\ guard.state = "active"
    /\ guard' = guard
    /\ pc' = IF pc = "built" THEN "marked" ELSE "remarked"
    /\ UNCHANGED <<joined_ptr, mutated, types, heap, handle, borrows, log, orig,
                   lastRead, returned, nOps, uaf>>

\* a mark_fully_init that flips the flag
MarkFullyInitToggles ==
    /\ pc \in {"built", "marked"}
    /\ guard.state = "active"
    /\ guard' = [guard EXCEPT !.fully_init = ~@]
    /\ pc' = IF pc = "built" THEN "marked" ELSE "remarked"
    /\ UNCHANGED <<joined_ptr, mutated, types, heap, handle, borrows, log, orig,
                   lastRead, returned, nOps, uaf>>

\* OwnerAndCellDropGuard::mark_fully_init; a second call finds the flag set
MarkFullyInit ==
    /\ pc \in {"built", "marked"}
    /\ guard.state = "active"
    /\ guard' = [guard EXCEPT !.fully_init = TRUE]
    /\ pc' = IF pc = "built" THEN "marked" ELSE "remarked"
    /\ UNCHANGED <<joined_ptr, mutated, types, heap, handle, borrows, log, orig, lastRead, returned, nOps, uaf>>

\* UnsafeSelfCell::new
New(joined_void_ptr) ==
    /\ pc \in {"marked", "remarked"}
    /\ handle' = [state |-> "live", joined_void_ptr |-> joined_void_ptr,
                  slot |-> 1, moves |-> 0, thread |-> 1, lent |-> FALSE]
    /\ pc' = "wrapped"
    /\ UNCHANGED <<joined_ptr, mutated, types, heap, guard, borrows, log, orig, lastRead, returned, nOps, uaf>>

\* a release that does not look at fully_init
GuardDropStepsIgnoringFlag(fully_init, Owner, Dependent) ==
    << Event("drop_owner", "guard", NoLayout),
       Event("dealloc", "guard", JoinedCellLayout(Owner, Dependent)) >>

\* a release that destroys the whole record, the unwritten dependent included
GuardDropStepsWholeCell(fully_init, Owner, Dependent) ==
    IF fully_init
      THEN << >>
      ELSE << Event("drop_owner", "guard", NoLayout),
              Event("drop_dependent", "guard", NoLayout),
              Event("dealloc", "guard", JoinedCellLayout(Owner, Dependent)) >>

\* the destructor runs and allocator calls of Drop for OwnerAndCellDropGuard
GuardDropSteps(fully_init, Owner, Dependent) ==
    IF fully_init
      THEN << >>
      ELSE << Event("drop_owner", "guard", NoLayout),
              Event("dealloc", "guard", JoinedCellLayout(Owner, Dependent)) >>

\* the effect of one step on the storage cell it is applied to
StepOnCell(cell, e) ==
    CASE e.ev = "drop_owner"     -> [cell EXCEPT !.owner.st = "dropped"]
      [] e.ev = "drop_dependent" -> [cell EXCEPT !.dependent.st = "dropped"]
      [] e.ev = "read_owner"     -> [cell EXCEPT !.owner.st = "moved"]
      [] e.ev = "dealloc"        -> FreeCell
      [] OTHER                   -> cell

RECURSIVE RunSteps(_, _)
RunSteps(cell, steps) ==
    IF steps = << >> THEN cell
    ELSE RunSteps(StepOnCell(cell, Head(steps)), Tail(steps))

\* Drop for OwnerAndCellDropGuard: the guard leaves scope
GuardDrop ==
    /\ pc \in {"wrapped", "unwinding"}
    /\ guard.state = "active"
    /\ guard' = [guard EXCEPT !.state = "released"]
    /\ pc' = IF pc = "wrapped" THEN "live" ELSE "aborted"
    /\ LET steps == GuardDropSteps(guard.fully_init, types.owner, types.dependent)
       IN  /\ log' = log \o steps
           /\ heap' = [heap EXCEPT ![guard.joined_ptr] = RunSteps(@, steps)]
    /\ UNCHANGED <<joined_ptr, mutated, types, handle, borrows, orig, lastRead,
                   returned, nOps, uaf>>

----------------------------------------------------------------------------
(* The handle's operations *)

\* the handle can be named by the caller: it was neither consumed by value
\* nor did it leave scope
Usable == pc = "live" /\ handle.state = "live" /\ ~uaf

\* &(*joined_ptr.as_ptr()).owner
OwnerAt(p) == heap[p].owner.val

\* a borrow_dependent that hands out the owner field
DependentAtOwnerField(p) == [seen |-> heap[p].owner.val, own |-> 0]

\* &(*joined_ptr.as_ptr()).dependent
DependentAt(p) == View(heap[p].dependent)

\* a borrow_owner that moves the owner out with ptr::read
borrow_ownerByRead ==
    /\ pc = "live" /\ handle.state = "live" /\ ~uaf
    /\ ~borrows.mut
    /\ borrows.shared < MaxShared
    /\ nOps < MaxOps
    /\ LET p == handle.joined_void_ptr
       IN  /\ Allocated(p)
           /\ lastRead' = [op |-> "owner", owner |-> heap[p].owner.val,
                           dependent |-> NoView, afterMoves |-> handle.moves]
           /\ heap' = [heap EXCEPT ![p].owner.st = "moved"]
           /\ log' = Append(log, Event("read_owner", "borrow_owner", NoLayout))
    /\ borrows' = [borrows EXCEPT !.shared = @ + 1]
    /\ nOps' = nOps + 1
    /\ UNCHANGED <<pc, joined_ptr, types, guard, handle, orig, returned,
                   mutated, uaf>>

\* UnsafeSelfCell::borrow_owner
borrow_owner ==
    /\ Usable
    /\ ~borrows.mut
    /\ borrows.shared < MaxShared
    /\ nOps < MaxOps
    /\ LET p == handle.joined_void_ptr
       IN  IF Allocated(p)
             THEN /\ lastRead' = [op |-> "owner", owner |-> OwnerAt(p),
                                  dependent |-> NoView, afterMoves |-> handle.moves]
                  /\ uaf' = uaf
             ELSE /\ \E v \in Values :
                        lastRead' = [op |-> "owner", owner |-> v,
                                     dependent |-> NoView, afterMoves |-> handle.moves]
                  /\ uaf' = TRUE
    /\ borrows' = [borrows EXCEPT !.shared = @ + 1]
    /\ nOps' = nOps + 1
    /\ UNCHANGED <<pc, joined_ptr, types, heap, guard, handle, log, orig,
                   returned, mutated>>

\* UnsafeSelfCell::borrow_dependent
borrow_dependent ==
    /\ Usable
    /\ ~borrows.mut
    /\ borrows.shared < MaxShared
    /\ nOps < MaxOps
    /\ LET p == handle.joined_void_ptr
       IN  IF Allocated(p)
             THEN /\ lastRead' = [op |-> "dependent", owner |-> 0,
                                  dependent |-> DependentAt(p),
                                  afterMoves |-> handle.moves]
                  /\ uaf' = uaf
             ELSE /\ \E v \in Values, w \in Values :
                        lastRead' = [op |-> "dependent", owner |-> 0,
                                     dependent |-> [seen |-> v, own |-> w],
                                     afterMoves |-> handle.moves]
                  /\ uaf' = TRUE
    /\ borrows' = [borrows EXCEPT !.shared = @ + 1]
    /\ nOps' = nOps + 1
    /\ UNCHANGED <<pc, joined_ptr, types, heap, guard, handle, log, orig,
                   returned, mutated>>

\* a borrow_mut taking &self: callable while other references are alive
borrow_mutSharedSelf ==
    /\ pc = "live" /\ handle.state = "live" /\ ~uaf
    /\ nOps < MaxOps
    /\ borrows' = [borrows EXCEPT !.mut = TRUE]
    /\ uaf' = ~Allocated(handle.joined_void_ptr)
    /\ nOps' = nOps + 1
    /\ UNCHANGED <<pc, joined_ptr, types, heap, guard, handle, log, orig,
                   lastRead, returned, mutated>>

\* UnsafeSelfCell::borrow_mut
borrow_mut ==
    /\ Usable
    /\ NoBorrows
    /\ nOps < MaxOps
    /\ borrows' = [borrows EXCEPT !.mut = TRUE]
    /\ uaf' = ~Allocated(handle.joined_void_ptr)
    /\ nOps' = nOps + 1
    /\ UNCHANGED <<pc, joined_ptr, types, heap, guard, handle, log, orig,
                   lastRead, returned, mutated>>

\* the caller assigns through the &mut JoinedCell that borrow_mut returned:
\* both fields are public
WriteThroughMut(field, v) ==
    /\ pc = "live"
    /\ ~uaf
    /\ borrows.mut
    /\ LET p == handle.joined_void_ptr
       IN  /\ Allocated(p)
           /\ IF field = "owner"
                THEN heap[p].owner.val # v
                     /\ heap' = [heap EXCEPT ![p].owner.val = v]
                ELSE heap[p].dependent.own # v
                     /\ heap' = [heap EXCEPT ![p].dependent.own = v]
    /\ mutated' = TRUE
    /\ UNCHANGED <<pc, joined_ptr, types, guard, handle, borrows, log, orig,
                   lastRead, returned, nOps, uaf>>

\* a reference returned by borrow_owner or borrow_dependent ends
EndShared ==
    /\ pc = "live"
    /\ borrows.shared > 0
    /\ borrows' = [borrows EXCEPT !.shared = @ - 1]
    /\ UNCHANGED <<pc, joined_ptr, types, heap, guard, handle, log, orig,
                   lastRead, returned, nOps, mutated, uaf>>

\* the reference returned by borrow_mut ends
EndMut ==
    /\ pc = "live"
    /\ borrows.mut
    /\ borrows' = [borrows EXCEPT !.mut = FALSE]
    /\ UNCHANGED <<pc, joined_ptr, types, heap, guard, handle, log, orig,
                   lastRead, returned, nOps, mutated, uaf>>

\* a handle that keeps the pair inline: moving it moves the pair to a new
\* address, and the reference inside the dependent is left behind
MoveHandleRelocating(s) ==
    /\ pc = "live" /\ handle.state = "live" /\ ~uaf
    /\ borrows.shared = 0 /\ ~borrows.mut
    /\ nOps < MaxOps
    /\ s # handle.slot
    /\ \E b \in Addrs :
          /\ heap[b].state = "free"
          /\ heap' = [heap EXCEPT ![b] = heap[handle.joined_void_ptr],
                                  ![handle.joined_void_ptr] = FreeCell]
          /\ handle' = [handle EXCEPT !.slot = s, !.moves = @ + 1,
                                      !.joined_void_ptr = b]
    /\ nOps' = nOps + 1
    /\ UNCHANGED <<pc, joined_ptr, types, guard, borrows, log, orig,
                   lastRead, returned, mutated, uaf>>

\* the handle is moved to another variable or container: the struct, that
\* is its pointer field, is copied to the new place
MoveHandle(s) ==
    /\ Usable
    /\ NoBorrows
    /\ nOps < MaxOps
    /\ s # handle.slot
    /\ handle' = [handle EXCEPT !.slot = s, !.moves = @ + 1]
    /\ nOps' = nOps + 1
    /\ UNCHANGED <<pc, joined_ptr, types, heap, guard, borrows, log, orig,
                   lastRead, returned, mutated, uaf>>

\* the fields of UnsafeSelfCell: a raw pointer and two markers
HandleFields == <<"NonNull<u8>", "PhantomData<Owner>", "PhantomData<DependentStatic>">>

\* whether a field of the handle has a marker, given what Owner and
\* DependentStatic have: NonNull has neither Send nor Sync, PhantomData<T>
\* has what T has
FieldHas(field, owner_has, dependent_has) ==
    CASE field = "NonNull<u8>"        -> FALSE
      [] field = "PhantomData<Owner>" -> owner_has
      [] OTHER                        -> dependent_has

\* the marker the compiler derives for a struct: every field has it
AutoDerived(owner_has, dependent_has) ==
    \A i \in DOMAIN HandleFields : FieldHas(HandleFields[i], owner_has, dependent_has)

\* a send impl bounded by the owner alone
SendImplAppliesOwnerOnly(Owner, DependentStatic) == IsSend(Owner)

\* unsafe impl Send for UnsafeSelfCell where Owner: Send, DependentStatic: Send
SendImplApplies(Owner, DependentStatic) == IsSend(Owner) /\ IsSend(DependentStatic)

\* unsafe impl Sync for UnsafeSelfCell where Owner: Sync, DependentStatic: Sync
SyncImplApplies(Owner, DependentStatic) == IsSync(Owner) /\ IsSync(DependentStatic)

\* UnsafeSelfCell<Owner, DependentStatic>: Send
HandleIsSend(Owner, DependentStatic) ==
    \/ AutoDerived(IsSend(Owner), IsSend(DependentStatic))
    \/ SendImplApplies(Owner, DependentStatic)

\* UnsafeSelfCell<Owner, DependentStatic>: Sync
HandleIsSync(Owner, DependentStatic) ==
    \/ AutoDerived(IsSync(Owner), IsSync(DependentStatic))
    \/ SyncImplApplies(Owner, DependentStatic)

\* the handle is sent to another thread: the compiler accepts it when the
\* handle's type is Send
SendHandle(t) ==
    /\ Usable
    /\ NoBorrows
    /\ ~handle.lent
    /\ nOps < MaxOps
    /\ t # handle.thread
    /\ HandleIsSend(types.owner, types.dependent)
    /\ handle' = [handle EXCEPT !.thread = t]
    /\ nOps' = nOps + 1
    /\ UNCHANGED <<pc, joined_ptr, types, heap, guard, borrows, log, orig,
                   lastRead, returned, mutated, uaf>>

\* a shared reference to the handle is given to another thread, or taken
\* back: the compiler accepts it when the handle's type is Sync
LendHandle ==
    /\ Usable
    /\ ~borrows.mut
    /\ nOps < MaxOps
    /\ HandleIsSync(types.owner, types.dependent)
    /\ handle' = [handle EXCEPT !.lent = ~@]
    /\ nOps' = nOps + 1
    /\ UNCHANGED <<pc, joined_ptr, types, heap, guard, borrows, log, orig,
                   lastRead, returned, mutated, uaf>>

\* drop_in_place of a JoinedCell: the drop glue of a struct drops its fields
\* in declaration order
DropInPlaceJoinedCell(who) ==
    [i \in 1 .. Len(JoinedCellFields) |->
        Event(IF JoinedCellFields[i] = "owner" THEN "drop_owner" ELSE "drop_dependent",
              who, NoLayout)]

\* a drop_joined that destroys the dependent only and leaks the owner
DropJoinedStepsDependentOnly(Owner, Dependent) ==
    << Event("drop_dependent", "drop_joined", NoLayout),
       Event("dealloc", "drop_joined", JoinedCellLayout(Owner, Dependent)) >>

\* the destructor runs and allocator calls of drop_joined
DropJoinedSteps(Owner, Dependent) ==
    DropInPlaceJoinedCell("drop_joined")
        \o << Event("dealloc", "drop_joined", JoinedCellLayout(Owner, Dependent)) >>

\* drop_joined takes &mut self: the handle is what it was
DropJoinedHandle(h) == h

\* UnsafeSelfCell::drop_joined
drop_joined(Dependent) ==
    /\ Usable
    /\ NoBorrows
    /\ LET p == handle.joined_void_ptr
           steps == DropJoinedSteps(types.owner, Dependent)
       IN  IF Allocated(p)
             THEN /\ log' = log \o steps
                  /\ heap' = [heap EXCEPT ![p] = RunSteps(@, steps)]
                  /\ uaf' = uaf
             ELSE /\ \E ran \in BOOLEAN : log' = IF ran THEN log \o steps ELSE log
                  /\ heap' = heap
                  /\ uaf' = TRUE
    /\ handle' = DropJoinedHandle(handle)
    /\ UNCHANGED <<pc, joined_ptr, types, guard, borrows, orig, lastRead,
                   returned, nOps, mutated>>

\* an into_owner that destroys the whole record after moving the owner out
IntoOwnerStepsDropWhole(Owner, Dependent) ==
    << Event("read_owner", "into_owner", NoLayout),
       Event("drop_owner", "into_owner", NoLayout),
       Event("drop_dependent", "into_owner", NoLayout),
       Event("dealloc", "into_owner", JoinedCellLayout(Owner, Dependent)) >>

\* an into_owner that frees with the layout of the owner alone
IntoOwnerStepsOwnerLayout(Owner, Dependent) ==
    << Event("read_owner", "into_owner", NoLayout),
       Event("drop_dependent", "into_owner", NoLayout),
       Event("dealloc", "into_owner",
             [size |-> SizeOf(Owner), align |-> AlignOf(Owner)]) >>

\* the moves, destructor runs and allocator calls of into_owner
IntoOwnerSteps(Owner, Dependent) ==
    << Event("read_owner", "into_owner", NoLayout),
       Event("drop_dependent", "into_owner", NoLayout),
       Event("dealloc", "into_owner", JoinedCellLayout(Owner, Dependent)) >>

\* an into_owner taking &mut self: the caller keeps the handle
IntoOwnerHandleByRef(h) == h

\* into_owner takes self by value: the caller's handle is gone
IntoOwnerHandle(h) == [h EXCEPT !.state = "consumed"]

\* UnsafeSelfCell::into_owner
into_owner(Dependent) ==
    /\ Usable
    /\ NoBorrows
    /\ LET p == handle.joined_void_ptr
           steps == IntoOwnerSteps(types.owner, Dependent)
       IN  IF Allocated(p)
             THEN /\ returned' = [st |-> "held", val |-> OwnerAt(p)]
                  /\ log' = log \o steps
                  /\ heap' = [heap EXCEPT ![p] = RunSteps(@, steps)]
                  /\ uaf' = uaf
             ELSE /\ \E v \in Values : returned' = [st |-> "held", val |-> v]
                  /\ \E ran \in BOOLEAN : log' = IF ran THEN log \o steps ELSE log
                  /\ heap' = heap
                  /\ uaf' = TRUE
    /\ handle' = IntoOwnerHandle(handle)
    /\ UNCHANGED <<pc, joined_ptr, types, guard, borrows, orig, lastRead,
                   nOps, mutated>>

\* the owner returned by into_owner leaves the caller's scope
DropReturned ==
    /\ returned.st = "held"
    /\ ~uaf
    /\ returned' = [returned EXCEPT !.st = "dropped"]
    /\ log' = Append(log, Event("drop_owner", "caller", NoLayout))
    /\ UNCHANGED <<pc, joined_ptr, types, heap, guard, handle, borrows, orig,
                   lastRead, nOps, mutated, uaf>>

\* a handle with a Drop impl that destroys and frees the record
HandleScopeExitDropping ==
    /\ pc = "live" /\ handle.state = "live" /\ ~uaf
    /\ borrows.shared = 0 /\ ~borrows.mut
    /\ Allocated(handle.joined_void_ptr)
    /\ handle' = [handle EXCEPT !.state = "gone"]
    /\ log' = log \o << Event("drop_owner", "drop", NoLayout),
                        Event("drop_dependent", "drop", NoLayout),
                        Event("dealloc", "drop",
                              JoinedCellLayout(types.owner, types.dependent)) >>
    /\ heap' = [heap EXCEPT ![handle.joined_void_ptr] = FreeCell]
    /\ UNCHANGED <<pc, joined_ptr, types, guard, borrows, orig,
                   lastRead, returned, nOps, mutated, uaf>>

\* the handle leaves scope: UnsafeSelfCell has no Drop
HandleScopeExit ==
    /\ Usable
    /\ NoBorrows
    /\ handle' = [handle EXCEPT !.state = "gone"]
    /\ UNCHANGED <<pc, joined_ptr, types, heap, guard, borrows, log, orig,
                   lastRead, returned, nOps, mutated, uaf>>

----------------------------------------------------------------------------
Next ==
    \/ \E a \in Addrs, O \in Types, D \in Types : Alloc(a, O, D)
    \/ \E v \in Values : WriteOwner(v)
    \/ GuardNew(joined_ptr)
    \/ \E f \in Fns : BuildDependent(f)
    \/ BuildAbort
    \/ MarkFullyInit
    \/ New(joined_ptr)
    \/ GuardDrop
    \/ borrow_owner
    \/ borrow_dependent
    \/ borrow_mut
    \/ \E field \in {"owner", "dependent"}, v \in Values : WriteThroughMut(field, v)
    \/ EndShared
    \/ EndMut
    \/ \E s \in Slots : MoveHandle(s)
    \/ drop_joined(types.dependent)
    \/ into_owner(types.dependent)
    \/ DropReturned
    \/ HandleScopeExit

Spec == Init /\ [][Next]_vars

\* construction over every pair of marker types, then sending and lending of
\* the handle between threads
NextSend ==
    \/ \E a \in Addrs, O \in MarkerTypes, D \in MarkerTypes : Alloc(a, O, D)
    \/ \E v \in Values : WriteOwner(v)
    \/ GuardNew(joined_ptr)
    \/ \E f \in Fns : BuildDependent(f)
    \/ MarkFullyInit
    \/ New(joined_ptr)
    \/ GuardDrop
    \/ \E t \in Threads : SendHandle(t)
    \/ LendHandle

SpecSend == Init /\ [][NextSend]_vars

----------------------------------------------------------------------------
(* Reading the log *)

By(who) == {i \in DOMAIN log : log[i].by = who}

Ran(who) == By(who) # {}

CountBy(e, who) == Cardinality({i \in By(who) : log[i].ev = e})

AllocLayout == log[1].layout

----------------------------------------------------------------------------
(* Properties *)

\* C1: in every execution of drop_joined the dependent's destructor runs
\* strictly before the owner's destructor, and both run before the storage
\* is deallocated.
C1_DependentBeforeOwner ==
    \A i, j \in By("drop_joined") :
        /\ (log[i].ev = "drop_dependent" /\ log[j].ev = "drop_owner") => i < j
        /\ (log[i].ev \in {"drop_dependent", "drop_owner"} /\ log[j].ev = "dealloc")
             => i < j

\* C2: when a life construct -> accessors -> drop_joined has ended, the
\* dependent's destructor ran exactly once, the owner's destructor ran
\* exactly once and the storage was deallocated exactly once.
C2_DropJoinedExactlyOnce ==
    (Ran("drop_joined") /\ ~uaf) =>
        /\ Count("drop_dependent") = 1
        /\ Count("drop_owner") = 1
        /\ Count("dealloc") = 1
        /\ \A a \in Addrs : heap[a].state = "free"

C2_Witness ==
    /\ Ran("drop_joined")
    /\ ~uaf
    /\ nOps = MaxOps
    /\ mutated

\* C3: into_owner returns a value equal to the owner written at
\* construction, the owner's destructor never runs twice, and it has run
\* exactly once when the returned owner has left scope.
C3_IntoOwnerReturnsOriginal ==
    ~uaf =>
        /\ returned.st # "none" => returned.val = orig.owner
        /\ Ran("into_owner") => Count("drop_owner") <= 1
        /\ returned.st = "dropped" => Count("drop_owner") = 1

\* C4: when the builder aborts after the owner was written and before
\* mark_fully_init, the release of the guard runs the owner's destructor
\* exactly once and frees the allocation exactly once, and the dependent's
\* destructor is never run.
C4_AbortCleansOwnerOnly ==
    pc = "aborted" =>
        /\ Count("drop_owner") = 1
        /\ Count("dealloc") = 1
        /\ Count("drop_dependent") = 0
        /\ \A a \in Addrs : heap[a].state = "free"

C4_Witness ==
    /\ pc = "aborted"
    /\ guard.state = "released"
    /\ ~guard.fully_init

\* C5: a guard released after mark_fully_init does nothing: no destructor
\* runs, nothing is deallocated, and the stored owner, the stored dependent
\* and the storage pointer stay what they were.
C5_MarkedGuardReleaseIsNoOp ==
    [][(guard.state = "active" /\ guard.fully_init /\ guard'.state = "released")
          => UNCHANGED <<heap, log, joined_ptr, handle>>]_vars

C5_Witness ==
    /\ pc = "live"
    /\ guard.state = "released"
    /\ guard.fully_init
    /\ Allocated(handle.joined_void_ptr)

\* C6: while the handle is live and its storage has not been destroyed, the
\* owner held in the storage equals the owner written at construction.
C6_OwnerNeverChanged ==
    (handle.state = "live" /\ Allocated(handle.joined_void_ptr)) =>
        heap[handle.joined_void_ptr].owner.val = orig.owner

\* C7: once drop_joined or into_owner has run on a handle, the handle can no
\* longer be accessed, and no operation touches freed storage.
C7_DestructiveConsumes ==
    /\ (Ran("drop_joined") \/ Ran("into_owner")) => handle.state # "live"
    /\ ~uaf

\* C7 (amended): into_owner consumes the handle, so nothing can be invoked on
\* it afterwards; drop_joined leaves the handle accessible, and freed storage
\* is touched only by an operation invoked after drop_joined.
C7_OnlyIntoOwnerConsumes ==
    /\ Ran("into_owner") => handle.state = "consumed"
    /\ uaf => Ran("drop_joined")
    /\ (Ran("drop_joined") /\ ~uaf) => handle.state \in {"live", "gone"}

C7_Witness ==
    /\ Ran("into_owner")
    /\ ~Ran("drop_joined")
    /\ handle.state = "consumed"
    /\ \A a \in Addrs : heap[a].state = "free"

\* C8: in a cell built from owner O and builder f, as long as only
\* borrow_owner and borrow_dependent are called, every borrow_owner observes
\* O and every borrow_dependent observes f(&O), whatever was read before.
C8_ReadsYieldOwnerAndDependent ==
    (~mutated /\ ~uaf) =>
        /\ lastRead.op = "owner" => lastRead.owner = orig.owner
        /\ lastRead.op = "dependent" =>
              lastRead.dependent = [seen |-> Apply(orig.fn, orig.owner), own |-> 0]

C8_Witness ==
    /\ ~mutated
    /\ ~uaf
    /\ lastRead.op = "dependent"
    /\ nOps = MaxOps
    /\ orig.owner = MaxOwner
    /\ orig.fn = "succ"
    /\ lastRead.dependent.seen = MaxOwner + 1

\* C9: from construction until a destructive operation the handle holds the
\* address the storage was allocated at, however often it is moved; the
\* reference in the dependent designates the owner at that address, and
\* reads made after moves observe what reads before the moves observed.
C9_AddressStableUnderMoves ==
    /\ (handle.state = "live" /\ ~Ran("drop_joined")) =>
          /\ handle.joined_void_ptr = joined_ptr
          /\ Allocated(joined_ptr)
          /\ heap[joined_ptr].owner.st = "init"
          /\ heap[joined_ptr].dependent.target = handle.joined_void_ptr
    /\ (lastRead.afterMoves > 0 /\ ~mutated /\ ~uaf) =>
          /\ lastRead.op = "owner" => lastRead.owner = orig.owner
          /\ lastRead.op = "dependent" =>
                lastRead.dependent.seen = Apply(orig.fn, orig.owner)

C9_Witness ==
    /\ handle.state = "live"
    /\ handle.moves >= 2
    /\ lastRead.afterMoves >= 2
    /\ lastRead.op = "dependent"
    /\ ~mutated
    /\ ~uaf

\* C10: every deallocation (by drop_joined, by into_owner, by the release of
\* the guard) is passed the layout the storage was allocated with.
C10_DeallocLayoutMatches ==
    \A i \in DOMAIN log :
        log[i].ev = "dealloc" =>
            /\ log[1].ev = "alloc"
            /\ log[i].layout = AllocLayout
            /\ log[i].layout = JoinedCellLayout(types.owner, types.dependent)

C10_Witness ==
    /\ Count("dealloc") = 1
    /\ types.owner = "u8"
    /\ types.dependent = "u64"
    /\ \E i \in DOMAIN log : log[i].ev = "dealloc" /\ log[i].layout.size = 16

\* C11: the handle is Send exactly when Owner and DependentStatic are both
\* Send, and Sync exactly when both are Sync; a handle reaches another thread
\* only when it is Send and is lent to another thread only when it is Sync.
C11_MarkersForwarded ==
    /\ HandleIsSend(types.owner, types.dependent)
          <=> (IsSend(types.owner) /\ IsSend(types.dependent))
    /\ HandleIsSync(types.owner, types.dependent)
          <=> (IsSync(types.owner) /\ IsSync(types.dependent))
    /\ handle.thread # 1 => (IsSend(types.owner) /\ IsSend(types.dependent))
    /\ handle.lent => (IsSync(types.owner) /\ IsSync(types.dependent))

C11_Witness ==
    /\ pc = "live"
    /\ types.owner = "u8"
    /\ types.dependent = "Cell"
    /\ handle.thread # 1
    /\ ~handle.lent
    /\ nOps = MaxOps

----------------------------------------------------------------------------
IsByIntoOwner(e) == e.by = "into_owner"

EventNames(events) == [i \in DOMAIN events |-> events[i].ev]

CleanupEvents == {"drop_owner", "drop_dependent", "dealloc"}

\* C13: one call of into_owner moves the owner out of the storage, then runs
\* the dependent's destructor once, then deallocates the storage once, then
\* returns the owner; it never runs the owner's destructor, which runs only
\* when the caller lets the returned owner go.
C13_IntoOwnerStepOrder ==
    Ran("into_owner") =>
        /\ EventNames(SelectSeq(log, IsByIntoOwner))
              = <<"read_owner", "drop_dependent", "dealloc">>
        /\ returned.st # "none"
        /\ ~uaf => Count("drop_owner") = IF returned.st = "dropped" THEN 1 ELSE 0

C13_Witness ==
    /\ Ran("into_owner")
    /\ returned.st = "held"
    /\ returned.val = MaxOwner
    /\ ~uaf
    /\ \A a \in Addrs : heap[a].state = "free"

\* C14: new only stores the pointer, and a call of borrow_owner or
\* borrow_dependent leaves the stored pointer, the storage (owner, dependent,
\* allocation state) and the destructor runs as they were.
C14_ReadsHaveNoEffect ==
    [][ /\ (handle.state = "none" /\ handle'.state = "live")
            => /\ handle'.joined_void_ptr = joined_ptr
               /\ UNCHANGED <<heap, log, guard, joined_ptr>>
        /\ (borrows'.shared = borrows.shared + 1)
            => UNCHANGED <<heap, log, handle, joined_ptr>> ]_vars

C14_Witness ==
    /\ borrows.shared = MaxShared
    /\ lastRead.op = "owner"
    /\ ~uaf
    /\ Allocated(handle.joined_void_ptr)
    /\ heap[handle.joined_void_ptr].owner.st = "init"
    /\ Count("alloc") = Len(log)

\* C15: a mutable reference from borrow_mut never coexists with a reference
\* from borrow_owner, borrow_dependent or another borrow_mut: borrow_mut is
\* called only when no reference is alive, and no shared reference is handed
\* out while the mutable one is alive.
C15_MutIsExclusive ==
    [][ /\ ~(borrows'.mut /\ borrows'.shared > 0)
        /\ (borrows'.mut /\ nOps' = nOps + 1) => (borrows.shared = 0 /\ ~borrows.mut)
      ]_vars

C15_Witness ==
    /\ borrows.mut
    /\ borrows.shared = 0
    /\ nOps = MaxOps
    /\ lastRead.op # "none"
    /\ ~uaf

\* C16: cleanup of an allocation belongs to the guard until fully_init is
\* set and to the handle afterwards: the guard and the handle never both
\* deallocate and never both run the owner's destructor, and on every path
\* (abort, or success followed by one destructive operation) the storage is
\* freed at most once and the owner destroyed at most once.
C16_SingleCleanupParty ==
    /\ handle.state # "none" => guard.fully_init
    /\ ~(CountBy("dealloc", "guard") > 0
         /\ CountBy("dealloc", "drop_joined") + CountBy("dealloc", "into_owner") > 0)
    /\ ~(CountBy("drop_owner", "guard") > 0
         /\ CountBy("drop_owner", "drop_joined") + CountBy("drop_owner", "caller") > 0)
    /\ ~uaf => (Count("dealloc") <= 1 /\ Count("drop_owner") <= 1)

C16_Witness ==
    /\ guard.state = "released"
    /\ guard.fully_init
    /\ CountBy("dealloc", "drop_joined") = 1
    /\ CountBy("drop_owner", "drop_joined") = 1
    /\ Count("dealloc") = 1
    /\ ~uaf

\* C17: a live handle that leaves scope runs no destructor and frees
\* nothing; for a fully constructed cell, destructors run and the storage is
\* freed only inside drop_joined and into_owner (and the owner into_owner
\* returned is destroyed by its new holder).
C17_HandleHasNoDrop ==
    [][ /\ (handle.state = "live" /\ handle'.state = "gone")
            => UNCHANGED <<heap, log>>
        /\ \A i \in DOMAIN log' :
              (handle'.state # "none" /\ log'[i].ev \in CleanupEvents)
                  => log'[i].by \in {"drop_joined", "into_owner", "caller"}
      ]_vars

C17_Witness ==
    /\ handle.state = "gone"
    /\ Allocated(handle.joined_void_ptr)
    /\ heap[handle.joined_void_ptr].owner.st = "init"
    /\ heap[handle.joined_void_ptr].dependent.st = "init"
    /\ \A i \in DOMAIN log : log[i].ev \notin CleanupEvents

\* C18: fully_init is false when the guard is created and only ever goes
\* from false to true: mark_fully_init sets it, nothing resets it, and a
\* second mark_fully_init leaves it true.
C18_FullyInitMonotonic ==
    [][ /\ (guard.state = "none" /\ guard'.state = "active") => ~guard'.fully_init
        /\ guard.fully_init => guard'.fully_init
        /\ (pc \in {"built", "marked"} /\ pc' \in {"marked", "remarked"})
              => guard'.fully_init ]_vars

C18_Witness ==
    /\ pc = "remarked"
    /\ guard.state = "active"
    /\ guard.fully_init

====
